---- MODULE Spec2Model ----
(***************************************************************************)
(* Model of src/main.py: the resumable batch organiser.  One run of        *)
(* main(config) is a sequence of steps (load the catalog, load the state,  *)
(* plan the batch, scan the source pool, materialize every batch entry,    *)
(* save the state); the file system (catalog file, state file, source and  *)
(* target directory) persists between runs.                                *)
(***************************************************************************)
EXTENDS Integers, Sequences, FiniteSets, TLC

\* ------------------------------------------------------------------ bounds
MaxBatchSize == 3
MaxImagesPerFolder == 2

\* ------------------------------------------------------- sequence helpers
Range(s) == {s[k] : k \in DOMAIN s}

Min(a, b) == IF a < b THEN a ELSE b

Max(a, b) == IF a < b THEN b ELSE a

RECURSIVE SelectSeqBy(_, _)
\* [x for x in s if x in keep]
SelectSeqBy(s, keep) ==
    IF s = <<>> THEN <<>>
    ELSE IF Head(s) \in keep THEN <<Head(s)>> \o SelectSeqBy(Tail(s), keep)
         ELSE SelectSeqBy(Tail(s), keep)

\* Python's s[:n]
SliceTo(s, n) ==
    IF n >= 0 THEN SubSeq(s, 1, Min(n, Len(s)))
    ELSE SubSeq(s, 1, Max(0, Len(s) + n))

\* ----------------------------------------------------- names (strings as
\* sequences of characters, so that sanitizing acts on characters)
LocColon == <<"a", ":">>
LocUnder == <<"a", "_">>
LocB == <<"b">>
LocC == <<"c", "?">>

\* two locations of FullCatalog share a folder name; those of PlainCatalog do not
FullCatalog == <<LocColon, LocB, LocUnder>>

PlainCatalog == <<LocB, LocUnder, LocC>>

Locations == Range(FullCatalog) \cup Range(PlainCatalog)

\* the catalogs a run may find in the catalog file
Catalogs == {SubSeq(FullCatalog, 1, n) : n \in 0..Len(FullCatalog)} \cup {PlainCatalog}

\* sanitize_folder_name: every invalid character becomes '_'
InvalidChars == {"<", ">", ":", "\"", "/", "\\", "|", "?", "*"}

sanitize_folder_name(folder_name) ==
    [k \in DOMAIN folder_name |->
        IF folder_name[k] \in InvalidChars THEN "_" ELSE folder_name[k]]

FolderNames == {sanitize_folder_name(l) : l \in Locations}

\* --------------------------------------------------------- source pool
\* A directory entry: its name, whether it is a directory, and its files.
\* A file: its name's rank in lexicographic order and its extension.
ImageExtensions == {".jpg", ".jpeg", ".png", ".gif", ".bmp", ".tiff"}

Lower(ext) == IF ext = ".JPG" THEN ".jpg" ELSE IF ext = ".PNG" THEN ".png" ELSE ext

FileX == [name |-> "x", rank |-> 1, ext |-> ".jpg", isfile |-> TRUE]
FileY == [name |-> "y", rank |-> 2, ext |-> ".PNG", isfile |-> TRUE]
FileN == [name |-> "notes", rank |-> 3, ext |-> ".txt", isfile |-> TRUE]
FileZ == [name |-> "z", rank |-> 4, ext |-> ".gif", isfile |-> TRUE]
FileSub == [name |-> "sub", rank |-> 5, ext |-> ".png", isfile |-> FALSE]

SrcOne == [name |-> "s1", isdir |-> TRUE, files |-> {FileSub, FileX}]
SrcTwo == [name |-> "s2", isdir |-> TRUE, files |-> {FileZ, FileN, FileY}]
SrcFile == [name |-> "readme", isdir |-> FALSE, files |-> {}]

\* os.listdir(source_dir), in the order the platform returns it
SourceDirs == {<<SrcFile>>, <<SrcOne>>, <<SrcOne, SrcFile, SrcTwo>>}

RECURSIVE SortByRank(_)
\* sorted(...) of a set of files, by name
SortByRank(files) ==
    IF files = {} THEN <<>>
    ELSE LET f == CHOOSE g \in files : \A h \in files : g.rank <= h.rank
         IN <<f>> \o SortByRank(files \ {f})

RECURSIVE FilterDirs(_)
FilterDirs(entries) ==
    IF entries = <<>> THEN <<>>
    ELSE IF Head(entries).isdir THEN <<Head(entries)>> \o FilterDirs(Tail(entries))
         ELSE FilterDirs(Tail(entries))

\* get_original_folders(source_dir)
get_original_folders(listing) == FilterDirs(listing)

\* get_image_files(folder_path): names of the image files, sorted
get_image_files(folder) ==
    LET imgs == {f \in folder.files : f.isfile /\ Lower(f.ext) \in ImageExtensions}
        srt == SortByRank(imgs)
    IN [k \in DOMAIN srt |-> srt[k].name]

\* ------------------------------------------------------------------ state
VARIABLES
    catalogFile,          \* locations.json: [kind, locations]
    stateFile,            \* state.json: [kind, processed]
    sourceDir,            \* listing of the source directory
    targetExists,         \* the target directory exists
    destFolders,          \* folder name -> [exists, files] under the target directory
    config,               \* [batch_size, images_per_folder]
    pc,                   \* position of the run in main()
    locations,
    processed_locations,
    unprocessed_locations,
    current_batch,
    original_folders,
    i,                    \* enumerate index of the batch loop (0-based)
    original_folder,      \* the source folder assigned to the current entry
    selected_images,
    img,                  \* number of selected images already attempted
    thisRun,              \* what the current/last run did (history)
    prevRun               \* how the run before it ended (history)

vars == <<catalogFile, stateFile, sourceDir, targetExists, destFolders, config, pc,
          locations, processed_locations, unprocessed_locations, current_batch,
          original_folders, i, original_folder, selected_images, img, thisRun,
          prevRun>>

inputs == <<catalogFile, sourceDir, config>>

targetDir == <<targetExists, destFolders>>

locals == <<locations, processed_locations, unprocessed_locations, current_batch,
            original_folders, i, original_folder, selected_images, img>>

NoFolder == [exists |-> FALSE, files |-> {}]

OldFolder == [exists |-> TRUE, files |-> {"old"}]

NoRun ==
    [outcome |-> "none", killedAt |-> "none", marked |-> <<>>, skipped |-> {},
     createFailed |-> {}, created |-> {}, copies |-> {}, saveCalls |-> 0,
     stateAtStart |-> [kind |-> "absent", processed |-> <<>>],
     targetAtStart |-> FALSE,
     foldersAtStart |-> [f \in FolderNames |-> NoFolder],
     assigned |-> {}, coveredAll |-> FALSE]

\* what a run remembers of the run before it
Summary(run) ==
    [kind |-> IF run.outcome = "none" THEN "none"
              ELSE IF run.outcome = "killed" /\ run.killedAt \in {"loop", "copy"}
                THEN "killed_in_loop"
              ELSE IF run.outcome = "all_processed" THEN "done_all"
              ELSE IF run.outcome = "done" /\ run.createFailed = {}
                THEN (IF run.coveredAll THEN "done_all" ELSE "done_part")
              ELSE "other",
     createFailed |-> run.createFailed,
     created |-> IF run.outcome = "killed" /\ run.killedAt \in {"loop", "copy"}
                 THEN run.created ELSE {}]

\* the processed lists a state file may hold at the start: sublists of the catalog
Sublists(cat) == {SelectSeqBy(cat, keep) : keep \in SUBSET Range(cat)}

Init ==
    /\ \/ \E cat \in Catalogs :
            /\ catalogFile = [kind |-> "valid", locations |-> cat]
            /\ \/ stateFile = [kind |-> "absent", processed |-> <<>>]
               \/ stateFile = [kind |-> "invalid", processed |-> <<>>]
               \/ \E p \in Sublists(cat) : stateFile = [kind |-> "valid", processed |-> p]
       \/ /\ catalogFile = [kind |-> "invalid", locations |-> <<>>]
          /\ stateFile = [kind |-> "absent", processed |-> <<>>]
    /\ sourceDir \in SourceDirs
    /\ \/ /\ targetExists = FALSE
          /\ destFolders = [f \in FolderNames |-> NoFolder]
       \/ /\ targetExists = TRUE
          /\ \E pre \in SUBSET {sanitize_folder_name(LocUnder)} :
                destFolders = [f \in FolderNames |-> IF f \in pre THEN OldFolder ELSE NoFolder]
    /\ config \in [batch_size : 0..MaxBatchSize, images_per_folder : 0..MaxImagesPerFolder]
    /\ pc = "idle"
    /\ locations = <<>>
    /\ processed_locations = <<>>
    /\ unprocessed_locations = <<>>
    /\ current_batch = <<>>
    /\ original_folders = <<>>
    /\ i = 0
    /\ original_folder = SrcFile
    /\ selected_images = <<>>
    /\ img = 0
    /\ thisRun = NoRun
    /\ prevRun = Summary(NoRun)

\* ---------------------------------------------------------------- helpers
\* variant: the progress taken as an offset into the catalog
Unprocessed_Offset(locs, processed) == SubSeq(locs, Len(processed) + 1, Len(locs))

\* variant: the first entry of the processed list is not looked at
Unprocessed_ForgetsFirst(locs, processed) ==
    SelectSeq(locs, LAMBDA l : \A k \in 2..Len(processed) : processed[k] # l)

\* variant: nothing filtered out
Unprocessed_All(locs, processed) == locs

RECURSIVE Unprocessed(_, _)
\* line 108: [loc for loc in locations if loc not in processed_locations]
Unprocessed(locs, processed) ==
    IF locs = <<>> THEN <<>>
    ELSE IF Head(locs) \notin Range(processed)
         THEN <<Head(locs)>> \o Unprocessed(Tail(locs), processed)
         ELSE Unprocessed(Tail(locs), processed)

\* variant: the slice taken one short
CurrentBatch_OneShort(unprocessed, batch_size) == SliceTo(unprocessed, batch_size - 1)

\* line 114: unprocessed_locations[:batch_size]
CurrentBatch(unprocessed, batch_size) == SliceTo(unprocessed, batch_size)

\* variant: a folder without files counts as absent
PathExists_EmptyIsAbsent(folders, name) ==
    folders[name].exists /\ folders[name].files # {}

\* variant: os.path.exists never consulted
PathExists_Never(folders, name) == FALSE

\* line 137: os.path.exists(new_folder_path)
PathExists(folders, name) == folders[name].exists

\* variant: the index counts the folders created so far, not the batch position
AssignedFolder_CountsCreated(folders, idx) ==
    folders[(Cardinality(thisRun.created) % Len(folders)) + 1]

\* line 151: original_folders[i % total_original_folders]
AssignedFolder(folders, idx) == folders[(idx % Len(folders)) + 1]

\* variant: nothing selected when the folder holds fewer images than wanted
SelectImages_NoneIfFew(images, n) ==
    IF Len(images) < n THEN <<>> ELSE SliceTo(images, n)

\* lines 157-161: all the images if fewer than wanted, else the first N
SelectImages(images, n) ==
    IF Len(images) < n THEN images ELSE SliceTo(images, n)

\* lines 139, 176: processed_locations.append(location)
MarkProcessed(processed, location) == Append(processed, location)

\* the batch entry whose turn it is, and its destination folder (lines 130-134)
Location == current_batch[i + 1]

NewFolderName == sanitize_folder_name(Location)

\* the list load_state returned to this run
StartList ==
    IF thisRun.stateAtStart.kind = "valid" THEN thisRun.stateAtStart.processed ELSE <<>>

\* the run ends: main returns, sys.exit(1), or an uncaught exception
EndRun(outcome) ==
    /\ pc' = "idle"
    /\ thisRun' = [thisRun EXCEPT !.outcome = outcome]

\* ---------------------------------------------------------------- actions
\* a new invocation of main(config)
StartRun ==
    /\ pc = "idle"
    /\ pc' = "load_locations"
    /\ prevRun' = Summary(thisRun)
    /\ thisRun' = [NoRun EXCEPT !.outcome = "running",
                                !.stateAtStart = stateFile,
                                !.targetAtStart = targetExists,
                                !.foldersAtStart = destFolders]
    /\ locations' = <<>>
    /\ processed_locations' = <<>>
    /\ unprocessed_locations' = <<>>
    /\ current_batch' = <<>>
    /\ original_folders' = <<>>
    /\ i' = 0
    /\ original_folder' = SrcFile
    /\ selected_images' = <<>>
    /\ img' = 0
    /\ UNCHANGED <<inputs, stateFile, targetDir>>

\* lines 99, 31-41: load_locations
LoadLocations ==
    /\ pc = "load_locations"
    /\ IF catalogFile.kind = "valid"
       THEN /\ locations' = catalogFile.locations
            /\ pc' = "load_state"
            /\ UNCHANGED thisRun
       ELSE /\ EndRun("exit1")
            /\ UNCHANGED locations
    /\ UNCHANGED <<inputs, stateFile, targetDir, processed_locations,
                   unprocessed_locations, current_batch, original_folders, i,
                   original_folder, selected_images, img, prevRun>>

\* variant: an unparsable state file read as no progress
LoadState_EmptyOnError ==
    /\ pc = "load_state"
    /\ processed_locations' = IF stateFile.kind = "valid" THEN stateFile.processed
                               ELSE <<>>
    /\ pc' = "plan"
    /\ UNCHANGED <<inputs, stateFile, targetDir, locations, unprocessed_locations,
                   current_batch, original_folders, i, original_folder,
                   selected_images, img, thisRun, prevRun>>

\* lines 104, 43-55: load_state
LoadState ==
    /\ pc = "load_state"
    /\ IF stateFile.kind = "absent"
       THEN /\ processed_locations' = <<>>
            /\ pc' = "plan"
            /\ UNCHANGED thisRun
       ELSE IF stateFile.kind = "valid"
       THEN /\ processed_locations' = stateFile.processed
            /\ pc' = "plan"
            /\ UNCHANGED thisRun
       ELSE /\ EndRun("exit1")
            /\ UNCHANGED processed_locations
    /\ UNCHANGED <<inputs, stateFile, targetDir, locations, unprocessed_locations,
                   current_batch, original_folders, i, original_folder,
                   selected_images, img, prevRun>>

\* lines 107-115: the next batch; line 115 indexes current_batch[0]
PlanBatch ==
    /\ pc = "plan"
    /\ LET unprocessed == Unprocessed(locations, processed_locations)
           batch == CurrentBatch(unprocessed, config.batch_size)
       IN /\ unprocessed_locations' = unprocessed
          /\ IF unprocessed = <<>>
             THEN /\ EndRun("all_processed")
                  /\ UNCHANGED current_batch
             ELSE /\ current_batch' = batch
                  /\ IF batch = <<>>
                     THEN EndRun("crash")
                     ELSE /\ pc' = "scan"
                          /\ thisRun' = [thisRun EXCEPT !.coveredAll = (batch = unprocessed)]
    /\ UNCHANGED <<inputs, stateFile, targetDir, locations, processed_locations,
                   original_folders, i, original_folder, selected_images, img,
                   prevRun>>

\* variant: the target directory made before the pool is looked at
ScanSources_MakedirsFirst ==
    /\ pc = "scan"
    /\ original_folders' = get_original_folders(sourceDir)
    /\ targetExists' = TRUE
    /\ IF original_folders' = <<>>
       THEN EndRun("no_sources")
       ELSE /\ pc' = "loop"
            /\ UNCHANGED thisRun
    /\ UNCHANGED <<inputs, stateFile, destFolders, locations, processed_locations,
                   unprocessed_locations, current_batch, i, original_folder,
                   selected_images, img, prevRun>>

\* lines 117-127: the source pool, then the target directory
ScanSources ==
    /\ pc = "scan"
    /\ original_folders' = get_original_folders(sourceDir)
    /\ IF original_folders' = <<>>
       THEN /\ EndRun("no_sources")
            /\ UNCHANGED targetExists
       ELSE /\ targetExists' = TRUE
            /\ pc' = "loop"
            /\ UNCHANGED thisRun
    /\ UNCHANGED <<inputs, stateFile, destFolders, locations, processed_locations,
                   unprocessed_locations, current_batch, i, original_folder,
                   selected_images, img, prevRun>>

\* variant: the skip without line 139
SkipExisting_NoMark ==
    /\ pc = "loop"
    /\ i < Len(current_batch)
    /\ PathExists(destFolders, NewFolderName)
    /\ i' = i + 1
    /\ thisRun' = [thisRun EXCEPT !.skipped = @ \cup {Location}]
    /\ UNCHANGED <<inputs, stateFile, targetDir, pc, locations, processed_locations,
                   unprocessed_locations, current_batch, original_folders,
                   original_folder, selected_images, img, prevRun>>

\* variant: line 139 appends the folder name instead of the location
SkipExisting_MarksFolderName ==
    /\ pc = "loop"
    /\ i < Len(current_batch)
    /\ PathExists(destFolders, NewFolderName)
    /\ processed_locations' = MarkProcessed(processed_locations, NewFolderName)
    /\ i' = i + 1
    /\ thisRun' = [thisRun EXCEPT !.skipped = @ \cup {Location},
                                  !.marked = Append(@, NewFolderName)]
    /\ UNCHANGED <<inputs, stateFile, targetDir, pc, locations, unprocessed_locations,
                   current_batch, original_folders, original_folder, selected_images,
                   img, prevRun>>

\* variant: the skip taken without the test of line 137
SkipExisting_Unchecked ==
    /\ pc = "loop"
    /\ i < Len(current_batch)
    /\ processed_locations' = MarkProcessed(processed_locations, Location)
    /\ i' = i + 1
    /\ thisRun' = [thisRun EXCEPT !.skipped = @ \cup {Location},
                                  !.marked = Append(@, Location)]
    /\ UNCHANGED <<inputs, stateFile, targetDir, pc, locations, unprocessed_locations,
                   current_batch, original_folders, original_folder, selected_images,
                   img, prevRun>>

\* lines 136-140: the destination folder exists: mark and continue
SkipExisting ==
    /\ pc = "loop"
    /\ i < Len(current_batch)
    /\ PathExists(destFolders, NewFolderName)
    /\ processed_locations' = MarkProcessed(processed_locations, Location)
    /\ i' = i + 1
    /\ thisRun' = [thisRun EXCEPT !.skipped = @ \cup {Location},
                                  !.marked = Append(@, Location)]
    /\ UNCHANGED <<inputs, stateFile, targetDir, pc, locations, unprocessed_locations,
                   current_batch, original_folders, original_folder, selected_images,
                   img, prevRun>>

\* lines 142-161: os.makedirs succeeds; the source folder and its images
CreateFolder ==
    /\ pc = "loop"
    /\ i < Len(current_batch)
    /\ ~PathExists(destFolders, NewFolderName)
    /\ destFolders' = [destFolders EXCEPT ![NewFolderName] = [exists |-> TRUE, files |-> {}]]
    /\ original_folder' = AssignedFolder(original_folders, i)
    /\ selected_images' = SelectImages(get_image_files(original_folder'),
                                       config.images_per_folder)
    /\ img' = 0
    /\ pc' = "copy"
    /\ thisRun' = [thisRun EXCEPT !.created = @ \cup {Location},
                                  !.assigned = @ \cup
                                      {<<i, Location, original_folder'.name>>}]
    /\ UNCHANGED <<inputs, stateFile, targetExists, locations, processed_locations,
                   unprocessed_locations, current_batch, original_folders, i,
                   prevRun>>

\* variant: the except branch of lines 146-148 marks the location
CreateFolderFails_Marks ==
    /\ pc = "loop"
    /\ i < Len(current_batch)
    /\ ~PathExists(destFolders, NewFolderName)
    /\ processed_locations' = MarkProcessed(processed_locations, Location)
    /\ i' = i + 1
    /\ thisRun' = [thisRun EXCEPT !.createFailed = @ \cup {Location},
                                  !.marked = Append(@, Location)]
    /\ UNCHANGED <<inputs, stateFile, targetDir, pc, locations, unprocessed_locations,
                   current_batch, original_folders, original_folder, selected_images,
                   img, prevRun>>

\* lines 143-148: os.makedirs raises: continue without marking
CreateFolderFails ==
    /\ pc = "loop"
    /\ i < Len(current_batch)
    /\ ~PathExists(destFolders, NewFolderName)
    /\ i' = i + 1
    /\ thisRun' = [thisRun EXCEPT !.createFailed = @ \cup {Location}]
    /\ UNCHANGED <<inputs, stateFile, targetDir, pc, locations, processed_locations,
                   unprocessed_locations, current_batch, original_folders,
                   original_folder, selected_images, img, prevRun>>

\* variant: a failed copy abandons the location (no except inside the loop)
CopyImage_AbortsOnFailure ==
    /\ pc = "copy"
    /\ img < Len(selected_images)
    /\ \E ok \in BOOLEAN :
         /\ destFolders' =
               IF ok THEN [destFolders EXCEPT ![NewFolderName].files =
                                                  @ \cup {selected_images[img + 1]}]
               ELSE destFolders
         /\ thisRun' = [thisRun EXCEPT !.copies = @ \cup
                           {[pos |-> i, loc |-> Location, src |-> original_folder.name,
                             image |-> selected_images[img + 1], ok |-> ok]}]
         /\ img' = IF ok THEN img + 1 ELSE 0
         /\ pc' = IF ok THEN "copy" ELSE "loop"
         /\ i' = IF ok THEN i ELSE i + 1
    /\ UNCHANGED <<inputs, stateFile, targetExists, locations, processed_locations,
                   unprocessed_locations, current_batch, original_folders,
                   original_folder, selected_images, prevRun>>

\* lines 164-171: one shutil.copy2, which succeeds or raises
CopyImage ==
    /\ pc = "copy"
    /\ img < Len(selected_images)
    /\ \E ok \in BOOLEAN :
         /\ destFolders' =
               IF ok THEN [destFolders EXCEPT ![NewFolderName].files =
                                                  @ \cup {selected_images[img + 1]}]
               ELSE destFolders
         /\ thisRun' = [thisRun EXCEPT !.copies = @ \cup
                           {[pos |-> i, loc |-> Location, src |-> original_folder.name,
                             image |-> selected_images[img + 1], ok |-> ok]}]
    /\ img' = img + 1
    /\ UNCHANGED <<inputs, stateFile, targetExists, pc, locations, processed_locations,
                   unprocessed_locations, current_batch, original_folders, i,
                   original_folder, selected_images, prevRun>>

\* variant: progress saved after every location instead of once at the end
FinishLocation_Checkpoint ==
    /\ pc = "copy"
    /\ img = Len(selected_images)
    /\ processed_locations' = MarkProcessed(processed_locations, Location)
    /\ stateFile' = [kind |-> "valid", processed |-> processed_locations']
    /\ i' = i + 1
    /\ pc' = "loop"
    /\ thisRun' = [thisRun EXCEPT !.marked = Append(@, Location)]
    /\ UNCHANGED <<inputs, targetDir, locations, unprocessed_locations,
                   current_batch, original_folders, original_folder, selected_images,
                   img, prevRun>>

\* lines 173-176: the image loop is over: mark as processed
FinishLocation ==
    /\ pc = "copy"
    /\ img = Len(selected_images)
    /\ processed_locations' = MarkProcessed(processed_locations, Location)
    /\ i' = i + 1
    /\ pc' = "loop"
    /\ thisRun' = [thisRun EXCEPT !.marked = Append(@, Location)]
    /\ UNCHANGED <<inputs, stateFile, targetDir, locations, unprocessed_locations,
                   current_batch, original_folders, original_folder, selected_images,
                   img, prevRun>>

\* line 130: the batch loop is exhausted; line 179 calls save_state
EndLoop ==
    /\ pc = "loop"
    /\ i = Len(current_batch)
    /\ pc' = "save"
    /\ UNCHANGED <<inputs, stateFile, targetDir, locals, thisRun, prevRun>>

\* line 62: open(state_path, 'w') truncates the file, or raises
SaveOpen ==
    /\ pc = "save"
    /\ \/ /\ stateFile' = [kind |-> "invalid", processed |-> <<>>]
          /\ pc' = "saving"
          /\ thisRun' = [thisRun EXCEPT !.saveCalls = @ + 1]
       \/ /\ EndRun("exit1")
          /\ thisRun' = [thisRun EXCEPT !.saveCalls = @ + 1, !.outcome = "exit1"]
          /\ UNCHANGED stateFile
    /\ UNCHANGED <<inputs, targetDir, locals, prevRun>>

\* variant: the list loaded at the start is written back
SaveWrite_Stale ==
    /\ pc = "saving"
    /\ \/ /\ stateFile' = [kind |-> "valid", processed |-> StartList]
          /\ EndRun("done")
       \/ /\ EndRun("exit1")
          /\ UNCHANGED stateFile
    /\ UNCHANGED <<inputs, targetDir, locals, prevRun>>

\* line 63: json.dump writes the whole list, or raises part-way; line 180
SaveWrite ==
    /\ pc = "saving"
    /\ \/ /\ stateFile' = [kind |-> "valid", processed |-> processed_locations]
          /\ EndRun("done")
       \/ /\ EndRun("exit1")
          /\ UNCHANGED stateFile
    /\ UNCHANGED <<inputs, targetDir, locals, prevRun>>

\* the process is killed (Ctrl-C, power loss) at any point from the batch loop
\* on; killed earlier, a run has changed nothing and is as if it never started.
\* The memory of the process is lost: only the files remain (and, as history,
\* where the run was killed and which folders it had created or failed on).
Interrupt ==
    /\ pc \in {"loop", "copy", "save", "saving"}
    /\ pc' = "idle"
    /\ thisRun' = [NoRun EXCEPT !.outcome = "killed",
                                !.killedAt = pc,
                                !.created = thisRun.created,
                                !.createFailed = thisRun.createFailed,
                                !.coveredAll = thisRun.coveredAll,
                                !.stateAtStart = thisRun.stateAtStart]
    /\ locations' = <<>>
    /\ processed_locations' = <<>>
    /\ unprocessed_locations' = <<>>
    /\ current_batch' = <<>>
    /\ original_folders' = <<>>
    /\ i' = 0
    /\ original_folder' = SrcFile
    /\ selected_images' = <<>>
    /\ img' = 0
    /\ UNCHANGED <<inputs, stateFile, targetDir, prevRun>>

Next ==
    \/ StartRun
    \/ LoadLocations
    \/ LoadState
    \/ PlanBatch
    \/ ScanSources
    \/ SkipExisting
    \/ CreateFolder
    \/ CreateFolderFails
    \/ CopyImage
    \/ FinishLocation
    \/ EndLoop
    \/ SaveOpen
    \/ SaveWrite
    \/ Interrupt

Spec == Init /\ [][Next]_vars

\* ------------------------------------------------- runs without failures
\* The same program started with a readable catalog, a state file absent or
\* readable, BATCH_SIZE >= 1 and at least one source folder, run again and
\* again, where os.makedirs (line 144) and save_state (lines 62-63) do not
\* raise and the process is not killed.  A copy may still fail.
InitProgress ==
    /\ Init
    /\ catalogFile.kind = "valid"
    /\ stateFile.kind # "invalid"
    /\ config.batch_size >= 1
    /\ \E k \in DOMAIN sourceDir : sourceDir[k].isdir

\* line 62 without the exception
SaveOpenOk == SaveOpen /\ pc' = "saving"

\* line 63 without the exception
SaveWriteOk == SaveWrite /\ thisRun'.outcome = "done"

NextProgress ==
    \/ StartRun
    \/ LoadLocations
    \/ LoadState
    \/ PlanBatch
    \/ ScanSources
    \/ SkipExisting
    \/ CreateFolder
    \/ CopyImage
    \/ FinishLocation
    \/ EndLoop
    \/ SaveOpenOk
    \/ SaveWriteOk

\* a started run goes on to its end, and the program is run again
SpecProgress == InitProgress /\ [][NextProgress]_vars /\ WF_vars(NextProgress)

\* ------------------------------------------------------- claim vocabulary
\* the catalog and the progress the run started from, read off the files
Catalog == catalogFile.locations

\* the run has computed its batch (line 114 has executed)
Planned ==
    \/ pc \in {"scan", "loop", "copy", "save", "saving"}
    \/ /\ pc = "idle"
       /\ \/ thisRun.outcome \in {"no_sources", "done"}
          \/ thisRun.outcome = "exit1" /\ thisRun.saveCalls > 0

\* the run is at or before the end of the batch loop
BeforeSave == pc \in {"load_locations", "load_state", "plan", "scan", "loop", "copy", "save"}

FolderOf(loc) == [k \in DOMAIN loc |-> IF loc[k] \in InvalidChars THEN "_" ELSE loc[k]]

CopiesFor(run, loc) == {c \in run.copies : c.loc = loc}

\* ----------------------------------------------------------------- claims
\* C1: with batch size n >= 1, the batch of a run is the first n (or all, if
\* fewer) catalog locations that are not in the progress set, in catalog
\* order: its j-th entry is the catalog entry preceded by exactly j-1 other
\* unprocessed catalog entries; no processed location is in the batch.
C1_KeptIdx == {k \in DOMAIN Catalog : Catalog[k] \notin Range(StartList)}

C1_BatchIsFirstUnprocessed ==
    (Planned /\ config.batch_size >= 1) =>
        /\ Len(current_batch) = Min(config.batch_size, Cardinality(C1_KeptIdx))
        /\ \A j \in DOMAIN current_batch :
              /\ current_batch[j] \notin Range(StartList)
              /\ \E k \in C1_KeptIdx :
                    /\ Catalog[k] = current_batch[j]
                    /\ Cardinality({m \in C1_KeptIdx : m < k}) = j - 1

C1_Witness ==
    /\ pc = "loop"
    /\ Len(Catalog) = 3
    /\ StartList = <<LocColon>>
    /\ config.batch_size = 1
    /\ current_batch = <<LocB>>

\* C2: when the destination folder of the batch entry whose turn it is already
\* exists, the step the run takes (unless it is killed) leaves every folder
\* unchanged, copies nothing, raises no error, appends the location to the
\* processed list and moves on to the next entry; a skipped location never
\* gets a copy in that run.
C2_TurnWithExistingFolder ==
    /\ pc = "loop"
    /\ i < Len(current_batch)
    /\ destFolders[FolderOf(current_batch[i + 1])].exists

C2_SkipStep ==
    (C2_TurnWithExistingFolder /\ thisRun'.outcome # "killed") =>
        /\ thisRun'.outcome = "running"
        /\ destFolders' = destFolders
        /\ targetExists' = targetExists
        /\ stateFile' = stateFile
        /\ thisRun'.copies = thisRun.copies
        /\ thisRun'.created = thisRun.created
        /\ processed_locations' = Append(processed_locations, current_batch[i + 1])
        /\ i' = i + 1
        /\ pc' = "loop"

C2_SkippedNeverCopied ==
    \A loc \in thisRun.skipped :
        /\ CopiesFor(thisRun, loc) = {}
        /\ loc \in Range(processed_locations)

C2_ExistingFolderSkipped == [][C2_SkipStep]_vars /\ []C2_SkippedNeverCopied

C2_Witness ==
    /\ LocColon \in thisRun.skipped
    /\ destFolders[FolderOf(LocColon)].files = {"old"}
    /\ LocB \in thisRun.created
    /\ processed_locations = <<LocColon, LocB>>

\* C3: when creating the destination folder of a batch entry fails, the
\* location is not marked and gets no copy, the loop goes on with the next
\* entry, and the next run that plans finds the location unprocessed (and
\* in its batch).
C3_FailStep ==
    (thisRun'.createFailed \ thisRun.createFailed # {}) =>
        /\ processed_locations' = processed_locations
        /\ destFolders' = destFolders
        /\ stateFile' = stateFile
        /\ thisRun'.copies = thisRun.copies
        /\ thisRun'.outcome = "running"
        /\ pc' = "loop"
        /\ i' = i + 1

C3_FailedNotMarked ==
    \A loc \in thisRun.createFailed :
        /\ loc \notin Range(processed_locations)
        /\ CopiesFor(thisRun, loc) = {}
        /\ stateFile.kind = "valid" => loc \notin Range(stateFile.processed)

C3_FailedPlannedAgain ==
    (Planned \/ (pc = "idle" /\ thisRun.outcome \in {"all_processed", "crash"})) =>
        \A loc \in prevRun.createFailed :
            /\ loc \in Range(unprocessed_locations)
            /\ config.batch_size >= 1 => loc \in Range(current_batch)

C3_CreateFailureRetried ==
    [][C3_FailStep]_vars /\ [](C3_FailedNotMarked /\ C3_FailedPlannedAgain)

C3_Witness ==
    /\ pc = "copy"
    /\ prevRun.createFailed = {LocColon}
    /\ StartList = <<LocB>>
    /\ current_batch[1] = LocColon
    /\ i = 0

\* C4: the state file is not written before or during the batch loop; a run
\* calls save_state at most once, only after the last batch entry; and a
\* run that completes has written exactly once, the progress loaded at its
\* start followed by every location it marked.
C4_SingleCommit ==
    /\ (pc # "idle" /\ BeforeSave) =>
          (thisRun.saveCalls = 0 /\ stateFile = thisRun.stateAtStart)
    /\ thisRun.saveCalls <= 1
    /\ thisRun.saveCalls = 1 =>
          (i = Len(current_batch) /\ pc \in {"saving", "idle"})
    /\ (pc = "idle" /\ thisRun.outcome = "done") =>
          /\ thisRun.saveCalls = 1
          /\ stateFile.kind = "valid"
          /\ stateFile.processed = StartList \o thisRun.marked

C4_Witness ==
    /\ pc = "idle"
    /\ thisRun.outcome = "done"
    /\ StartList = <<LocB>>
    /\ Len(thisRun.marked) = 2
    /\ thisRun.created # {}

\* C5: a run killed inside the batch loop leaves the state file as it was
\* before the run and leaves the folders it created; in the next run no
\* location whose folder the killed run created is created or copied again:
\* once its turn has passed it has been skipped and marked.
C5_KilledInLoop ==
    (pc = "idle" /\ thisRun.outcome = "killed" /\ thisRun.killedAt \in {"loop", "copy"}) =>
        /\ stateFile = thisRun.stateAtStart
        /\ \A loc \in thisRun.created : destFolders[FolderOf(loc)].exists

C5_NextRunSkips ==
    (prevRun.kind = "killed_in_loop") =>
        \A loc \in prevRun.created :
            /\ destFolders[FolderOf(loc)].exists
            /\ loc \notin thisRun.created
            /\ CopiesFor(thisRun, loc) = {}
            /\ \A k \in DOMAIN current_batch :
                  (current_batch[k] = loc /\ k <= i) =>
                      (loc \in thisRun.skipped /\ loc \in Range(processed_locations))

C5_InterruptedBatch == C5_KilledInLoop /\ C5_NextRunSkips

C5_Witness ==
    /\ prevRun.kind = "killed_in_loop"
    /\ prevRun.created = {LocColon, LocB}
    /\ thisRun.skipped = {LocColon, LocB}
    /\ thisRun.created = {}
    /\ destFolders[FolderOf(LocB)].files = {"y"}

\* C6: the source folder of the entry materialized at batch position p
\* (0-based, counted from the start of this run's batch, skipped and failed
\* entries included) is the (p mod S)-th folder of the source pool; when a
\* whole batch of size B > S is materialized, every source folder serves
\* floor(B/S) or ceil(B/S) positions.
C6_Pool == SelectSeq(sourceDir, LAMBDA e : e.isdir)

C6_PositionsOf(name) == {a \in thisRun.assigned : a[3] = name}

C6_CyclicAssignment ==
    /\ \A a \in thisRun.assigned :
          /\ current_batch[a[1] + 1] = a[2]
          /\ a[3] = C6_Pool[(a[1] % Len(C6_Pool)) + 1].name
    /\ \A c \in thisRun.copies :
          /\ current_batch[c.pos + 1] = c.loc
          /\ c.src = C6_Pool[(c.pos % Len(C6_Pool)) + 1].name
    /\ (Cardinality(thisRun.assigned) = Len(current_batch)
          /\ Len(current_batch) > Len(C6_Pool)) =>
          \A k \in DOMAIN C6_Pool :
              LET n == Cardinality(C6_PositionsOf(C6_Pool[k].name))
                  q == Len(current_batch) \div Len(C6_Pool)
              IN n = q \/ (n = q + 1 /\ Len(current_batch) % Len(C6_Pool) # 0)

C6_Witness ==
    /\ Len(C6_Pool) = 2
    /\ LocColon \in thisRun.skipped
    /\ <<1, LocB, "s2">> \in thisRun.assigned
    /\ \E c \in thisRun.copies : c.pos = 1 /\ c.src = "s2"

\* C7 as stated: a run that follows a completed run with no folder-creation
\* failure marks nothing and copies nothing.
C7_SecondRunIdle ==
    (prevRun.kind \in {"done_all", "done_part"}) =>
        (thisRun.marked = <<>> /\ thisRun.copies = {})

\* C7 (amended): a run that follows a completed run whose batch held every
\* unprocessed location (or that found none) and had no folder-creation
\* failure marks nothing, creates nothing, copies nothing, writes nothing
\* and ends AllProcessed.
C7_SecondRunIdleAfterFullBatch ==
    (prevRun.kind = "done_all") =>
        /\ thisRun.marked = <<>>
        /\ thisRun.copies = {}
        /\ thisRun.created = {}
        /\ thisRun.saveCalls = 0
        /\ (pc = "idle" /\ thisRun.outcome # "none") => thisRun.outcome = "all_processed"

C7_Witness ==
    /\ prevRun.kind = "done_all"
    /\ Catalog = PlainCatalog
    /\ \A f \in FolderNames : destFolders[f].exists
    /\ pc = "idle"
    /\ thisRun.outcome = "all_processed"

\* C8: a run that starts with every catalog location in its progress ends
\* AllProcessed and changes nothing: target directory, destination folders
\* and state file are as at its start, and nothing is copied or saved.
C8_StartsComplete ==
    /\ thisRun.outcome # "none"
    /\ catalogFile.kind = "valid"
    /\ thisRun.stateAtStart.kind # "invalid"
    /\ Range(Catalog) \subseteq Range(StartList)

C8_AllProcessedNoMutation ==
    C8_StartsComplete =>
        /\ targetExists = thisRun.targetAtStart
        /\ destFolders = thisRun.foldersAtStart
        /\ stateFile = thisRun.stateAtStart
        /\ thisRun.copies = {}
        /\ thisRun.created = {}
        /\ thisRun.marked = <<>>
        /\ thisRun.saveCalls = 0
        /\ pc \in {"load_locations", "load_state", "plan", "idle"}
        /\ pc = "idle" => thisRun.outcome = "all_processed"

C8_Witness ==
    /\ pc = "idle"
    /\ thisRun.outcome = "all_processed"
    /\ Len(Catalog) = 3
    /\ Len(StartList) = 3
    /\ targetExists = FALSE

\* C9: with batch size 0 and at least one unprocessed location the run
\* completes normally, having created, copied and marked nothing.
C9_ZeroBatchIsLegal ==
    (/\ config.batch_size = 0
     /\ pc = "idle"
     /\ thisRun.outcome \notin {"none", "killed"}
     /\ unprocessed_locations # <<>>) =>
        /\ thisRun.outcome \in {"done", "no_sources"}
        /\ thisRun.created = {}
        /\ thisRun.copies = {}
        /\ thisRun.marked = <<>>

\* C10: the processed list in memory and the one in the state file hold
\* only catalog locations.
C10_ProcessedWithinCatalog ==
    /\ Range(processed_locations) \subseteq Range(Catalog)
    /\ stateFile.kind = "valid" => Range(stateFile.processed) \subseteq Range(Catalog)

C10_Witness ==
    /\ prevRun.kind = "killed_in_loop"
    /\ pc = "idle"
    /\ thisRun.outcome = "done"
    /\ thisRun.skipped # {}
    /\ thisRun.createFailed # {}
    /\ \E c \in thisRun.copies : ~c.ok
    /\ stateFile.kind = "valid"
    /\ Len(stateFile.processed) = 2

\* C11: the processed list, in memory and in the state file, never holds
\* the same identifier twice, also when two batch locations share a folder.
C11_NoDup(s) == \A j, k \in DOMAIN s : s[j] = s[k] => j = k

C11_MarkedAtMostOnce ==
    /\ C11_NoDup(processed_locations)
    /\ stateFile.kind = "valid" => C11_NoDup(stateFile.processed)

C11_Witness ==
    /\ pc = "idle"
    /\ thisRun.outcome = "done"
    /\ thisRun.created = {LocColon, LocB}
    /\ thisRun.skipped = {LocUnder}
    /\ stateFile.kind = "valid"
    /\ stateFile.processed = <<LocColon, LocB, LocUnder>>

\* C12: every location in the state file before a run is in the state file
\* after it, whatever the run did.
C12_PersistedGrows ==
    (thisRun.outcome # "none" /\ thisRun.stateAtStart.kind = "valid") =>
        /\ stateFile.kind = "valid"
        /\ Range(thisRun.stateAtStart.processed) \subseteq Range(stateFile.processed)

\* C13: a failed copy changes nothing but the image index: the image loop
\* goes on with the next selected image, the images attempted so far are
\* always the first img of the selection, the location is marked exactly when
\* every selected image has been attempted, and the batch loop then goes on.
C13_Attempted(loc) == {c.image : c \in CopiesFor(thisRun, loc)}

C13_FailedCopyStep ==
    (\E c \in thisRun'.copies \ thisRun.copies : ~c.ok) =>
        /\ pc = "copy" /\ pc' = "copy"
        /\ img' = img + 1
        /\ i' = i
        /\ selected_images' = selected_images
        /\ destFolders' = destFolders
        /\ processed_locations' = processed_locations
        /\ thisRun'.outcome = "running"

C13_MarkStep ==
    (pc = "copy" /\ thisRun'.outcome # "killed" /\ img = Len(selected_images)) =>
        /\ processed_locations' = Append(processed_locations, current_batch[i + 1])
        /\ i' = i + 1
        /\ pc' = "loop"

C13_AllAttempted ==
    /\ pc = "copy" =>
          /\ C13_Attempted(current_batch[i + 1]) =
                {selected_images[k] : k \in 1..img}
          /\ current_batch[i + 1] \notin Range(processed_locations)
    /\ \A c \in thisRun.copies :
          (c.pos < i /\ thisRun.outcome # "killed") =>
              c.loc \in Range(processed_locations)

C13_CopyFailureIsolated ==
    [][C13_FailedCopyStep /\ C13_MarkStep]_vars /\ []C13_AllAttempted

C13_Witness ==
    /\ pc = "copy"
    /\ i = 2
    /\ \E c \in thisRun.copies : c.pos = 1 /\ c.image = "y" /\ ~c.ok
    /\ \E c \in thisRun.copies : c.pos = 1 /\ c.image = "z" /\ c.ok
    /\ current_batch[2] \in Range(processed_locations)

\* C14: the images selected for a materialized location are the first
\* min(n, k) of the k image files of its source folder in name order; when
\* the location is marked, exactly those have been attempted and the folder
\* holds the ones whose copy succeeded (none when n = 0).
C14_IsImage(f) ==
    f.isfile /\ f.ext \in {".jpg", ".JPG", ".jpeg", ".png", ".PNG", ".gif", ".bmp", ".tiff"}

C14_Images(name) ==
    UNION {{f \in e.files : C14_IsImage(f)} : e \in {d \in Range(sourceDir) : d.name = name}}

\* the names of the first min(n, k) images of folder `name`
C14_Expected(name) ==
    {f.name : f \in {g \in C14_Images(name) :
        Cardinality({h \in C14_Images(name) : h.rank < g.rank}) < config.images_per_folder}}

C14_SelectionIsPrefix ==
    /\ pc = "copy" =>
          /\ Len(selected_images) =
                Min(config.images_per_folder, Cardinality(C14_Images(original_folder.name)))
          /\ \A j \in DOMAIN selected_images :
                \E f \in C14_Images(original_folder.name) :
                    /\ f.name = selected_images[j]
                    /\ Cardinality({h \in C14_Images(original_folder.name) :
                                       h.rank < f.rank}) = j - 1
    /\ \A a \in thisRun.assigned :
          a[2] \in Range(thisRun.marked) =>
              /\ a[2] \in Range(processed_locations)
              /\ C13_Attempted(a[2]) = C14_Expected(a[3])
              /\ destFolders[FolderOf(a[2])].exists
              /\ destFolders[FolderOf(a[2])].files =
                    {c.image : c \in {d \in CopiesFor(thisRun, a[2]) : d.ok}}

C14_Witness ==
    /\ config.images_per_folder = 2
    /\ <<0, LocB, "s1">> \in thisRun.assigned
    /\ LocB \in Range(thisRun.marked)
    /\ destFolders[FolderOf(LocB)].files = {"x"}
    /\ <<1, LocUnder, "s2">> \in thisRun.assigned
    /\ destFolders[FolderOf(LocUnder)].files = {"y", "z"}
    /\ LocUnder \in Range(thisRun.marked)

\* C15: with no folder in the source directory a run never enters the batch
\* loop: it halts at the scan with its own outcome, having created neither
\* the target directory nor a destination folder, marked nothing, copied
\* nothing and not touched the state file.
C15_NoSourceFolders == \A k \in DOMAIN sourceDir : ~sourceDir[k].isdir

C16_SaveIsAtomic ==
    thisRun.outcome # "none" =>
        \/ stateFile = thisRun.stateAtStart
        \/ /\ stateFile.kind = "valid"
           /\ thisRun.outcome # "killed" => stateFile.processed = processed_locations

\* C17: a run that finds the catalog or the state file unreadable stops while
\* loading, with exit status 1, and has by then created no folder, copied no
\* image and not written the state file.
C17_FatalAtLoad ==
    catalogFile.kind = "invalid" \/ thisRun.stateAtStart.kind = "invalid"

C17_FatalAbortsUntouched ==
    (thisRun.outcome # "none" /\ C17_FatalAtLoad) =>
        /\ pc \in {"load_locations", "load_state", "idle"}
        /\ pc = "idle" => thisRun.outcome = "exit1"
        /\ targetExists = thisRun.targetAtStart
        /\ destFolders = thisRun.foldersAtStart
        /\ stateFile = thisRun.stateAtStart
        /\ thisRun.created = {} /\ thisRun.copies = {} /\ thisRun.marked = <<>>
        /\ thisRun.saveCalls = 0

C17_Witness ==
    /\ pc = "idle"
    /\ thisRun.outcome = "exit1"
    /\ thisRun.stateAtStart.kind = "invalid"
    /\ catalogFile.kind = "valid"
    /\ Len(Catalog) = 3
    /\ sourceDir = <<SrcOne, SrcFile, SrcTwo>>
    /\ ~targetExists

\* C18 (as stated): in a completed run whose batch holds two locations with
\* the same folder name, absent before the run, the earlier one creates and
\* fills the folder, the later one is skipped and marked without a copy, and
\* afterwards both are in the saved list with one folder between them.
C18_SharingPairs ==
    {pq \in (DOMAIN current_batch) \X (DOMAIN current_batch) :
        /\ pq[1] < pq[2]
        /\ FolderOf(current_batch[pq[1]]) = FolderOf(current_batch[pq[2]])
        /\ ~thisRun.foldersAtStart[FolderOf(current_batch[pq[1]])].exists}

C18_EarlierCreatesLaterSkips(early, late) ==
    /\ early \in thisRun.created
    /\ early \notin thisRun.skipped
    /\ \E a \in thisRun.assigned :
          a[2] = early /\ C13_Attempted(early) = C14_Expected(a[3])
    /\ late \in thisRun.skipped
    /\ late \notin thisRun.created
    /\ CopiesFor(thisRun, late) = {}
    /\ stateFile.kind = "valid"
    /\ {early, late} \subseteq Range(stateFile.processed)
    /\ destFolders[FolderOf(early)].exists
    /\ destFolders[FolderOf(early)].files =
          {c.image : c \in {d \in CopiesFor(thisRun, early) : d.ok}}

C19_MarkingStep ==
    (pc \in {"loop", "copy"} /\ Len(processed_locations') = Len(processed_locations) + 1) =>
        /\ processed_locations' = Append(processed_locations, current_batch[i + 1])
        /\ destFolders'[FolderOf(current_batch[i + 1])].exists
        /\ \/ current_batch[i + 1] \in thisRun'.created
           \/ /\ current_batch[i + 1] \in thisRun'.skipped
              /\ destFolders[FolderOf(current_batch[i + 1])].exists

C19_MarkedHaveFolder ==
    /\ \A loc \in Range(thisRun.marked) :
          /\ loc \in Locations
          /\ loc \in thisRun.created \cup thisRun.skipped
          /\ loc \notin thisRun.createFailed
          /\ destFolders[FolderOf(loc)].exists
    /\ pc \in {"loop", "copy", "save", "saving"} =>
          processed_locations = StartList \o thisRun.marked

C19_MarkedOnlyWithFolder ==
    [][C19_MarkingStep]_vars /\ []C19_MarkedHaveFolder

C19_Witness ==
    /\ pc = "idle"
    /\ thisRun.outcome = "done"
    /\ thisRun.createFailed = {LocB}
    /\ thisRun.skipped = {LocUnder}
    /\ thisRun.created = {LocC}
    /\ thisRun.marked = <<LocUnder, LocC>>
    /\ ~destFolders[FolderOf(LocB)].exists

\* C20: without interruption, folder-creation or save failures, a run that
\* starts with u > 0 unprocessed locations completes and leaves exactly
\* min(batch_size, u) more locations in the state file; taking min(n, u) away
\* run after run empties u in ceil(u / n) runs; a run that starts with the
\* whole catalog processed ends AllProcessed without touching anything; and
\* from some run on the state file holds the whole catalog and every run ends
\* AllProcessed.
C20_Persisted(file) == IF file.kind = "valid" THEN Range(file.processed) ELSE {}

C20_UnprocessedAtStart ==
    Cardinality(Range(Catalog) \ C20_Persisted(thisRun.stateAtStart))

RECURSIVE C20_RunsNeeded(_, _)
C20_RunsNeeded(u, n) == IF u = 0 THEN 0 ELSE 1 + C20_RunsNeeded(u - Min(n, u), n)

C20_RunAddsBatch ==
    /\ (pc = "idle" /\ thisRun.outcome # "none") =>
          IF C20_UnprocessedAtStart = 0
          THEN /\ thisRun.outcome = "all_processed"
               /\ stateFile = thisRun.stateAtStart
               /\ destFolders = thisRun.foldersAtStart
          ELSE /\ thisRun.outcome = "done"
               /\ stateFile.kind = "valid"
               /\ C20_Persisted(thisRun.stateAtStart) \subseteq C20_Persisted(stateFile)
               /\ C20_Persisted(stateFile) \subseteq Range(Catalog)
               /\ Cardinality(C20_Persisted(stateFile)) =
                     Cardinality(C20_Persisted(thisRun.stateAtStart))
                        + Min(config.batch_size, C20_UnprocessedAtStart)
    /\ C20_RunsNeeded(C20_UnprocessedAtStart, config.batch_size) =
          (C20_UnprocessedAtStart + config.batch_size - 1) \div config.batch_size

C20_Complete ==
    /\ C20_Persisted(stateFile) = Range(Catalog)
    /\ pc = "idle" => thisRun.outcome = "all_processed"

C20_ProgressToCompletion == []C20_RunAddsBatch /\ <>[]C20_Complete

C20_Witness ==
    /\ pc = "idle"
    /\ thisRun.outcome = "done"
    /\ config.batch_size = 2
    /\ prevRun.kind = "done_part"
    /\ thisRun.stateAtStart.processed = <<LocB, LocUnder>>
    /\ stateFile.processed = <<LocB, LocUnder, LocC>>

====
